---- MODULE Spec2Model ----
(***************************************************************************)
(* A model of simpleRealtorAssistant (src/main.py): the Chat class, which  *)
(* compiles a normalized free-text query into a MongoDB operation, and the *)
(* read-eval loop of main().                                               *)
(*                                                                         *)
(* Representation.  A Python str is a sequence of one-character strings    *)
(* (<<"g","e","t">> is "get"), so that join, split, replace, the regular   *)
(* expressions and int() are computed character by character as Python     *)
(* computes them.  A list is a sequence, a dict is a function whose        *)
(* DOMAIN is its key set.  A value loaded from patterns.json is tagged     *)
(* with its JSON type: [t |-> "str" | "list" | "dict", v |-> ...].         *)
(* The characters are those of ASCII: the classes \w, \s and is_punct are  *)
(* the ASCII part of Python's Unicode classes.                             *)
(***************************************************************************)
EXTENDS Integers, Sequences, FiniteSets, TLC

VARIABLES
    pc,        \* control point: of main()'s loop, or "call"/"return" of one method
    patterns,  \* Chat._patterns, the loaded patterns.json
    nlp,       \* Chat._nlp, the spaCy pipeline (lemma table and stop words)
    role,      \* args.role
    today,     \* the date datetime.now() returns
    db,        \* the realty_lab database: collection name -> list of documents
    args,      \* the arguments of the method under call (per-method specifications)
    ret,       \* what the method returned or raised (per-method specifications)
    loc,       \* the locals of main()'s loop body
    printed    \* what main() printed last

vars == <<pc, patterns, nlp, role, today, db, args, ret, loc, printed>>

----------------------------------------------------------------------------
(* Bounds of the model *)

\* longest word list given to split_on_parts
MaxWords == 5
\* longest word list given to split_fields
MaxQuery == 4
\* longest bucket in the field maps given to the field transformers
MaxBucket == 2
\* most documents the database holds in the main loop
MaxDocs == 2

----------------------------------------------------------------------------
(* Characters and strings *)

Digits == {"0", "1", "2", "3", "4", "5", "6", "7", "8", "9"}

\* int() of one decimal digit
DigitVal(c) ==
    CASE c = "0" -> 0 [] c = "1" -> 1 [] c = "2" -> 2 [] c = "3" -> 3
      [] c = "4" -> 4 [] c = "5" -> 5 [] c = "6" -> 6 [] c = "7" -> 7
      [] c = "8" -> 8 [] c = "9" -> 9

\* str() of one decimal digit
DigitChar(n) ==
    CASE n = 0 -> "0" [] n = 1 -> "1" [] n = 2 -> "2" [] n = 3 -> "3"
      [] n = 4 -> "4" [] n = 5 -> "5" [] n = 6 -> "6" [] n = 7 -> "7"
      [] n = 8 -> "8" [] n = 9 -> "9"

UpperCase ==
    <<"A", "B", "C", "D", "E", "F", "G", "H", "I", "J", "K", "L", "M",
      "N", "O", "P", "Q", "R", "S", "T", "U", "V", "W", "X", "Y", "Z">>

LowerCase ==
    <<"a", "b", "c", "d", "e", "f", "g", "h", "i", "j", "k", "l", "m",
      "n", "o", "p", "q", "r", "s", "t", "u", "v", "w", "x", "y", "z">>

\* lex.is_punct: the ASCII characters of Unicode category P (punctuation). The
\* underscore is one (Pc); "$", "+", "<", "=", ">", "^", "`", "|" and "~" are
\* symbols (category S), not punctuation
Punct ==
    {"!", "\"", "#", "%", "&", "'", "(", ")", "*", ",", "-", ".", "/", ":", ";",
     "?", "@", "[", "\\", "]", "_", "{", "}"}

\* the ASCII characters \s matches: space, \t, \n, \v, \f, \r and the
\* separators \x1c to \x1f
Spaces == {" ", "\t", "\n", "", "\f", "\r", "", "", "", ""}

\* the characters \w matches: letters, digits and the underscore
WordChars ==
    {UpperCase[i] : i \in DOMAIN UpperCase} \cup {LowerCase[i] : i \in DOMAIN LowerCase}
      \cup Digits \cup {"_"}

\* the regular expression class [\w\s]
InWordOrSpace(c) == c \in WordChars \cup Spaces

Range(s) == {s[i] : i \in DOMAIN s}

Max(S) == CHOOSE m \in S : \A n \in S : n <= m

Min(S) == CHOOSE m \in S : \A n \in S : m <= n

\* F(v), with v evaluated once: the recursive definitions below hand their
\* argument on as a value, not as an expression to evaluate again at every use
Strict(v, F(_)) == CHOOSE r \in {F(x) : x \in {v}} : TRUE

\* sep.join(words)
RECURSIVE Join(_, _)
Join(words, sep) ==
    IF words = <<>> THEN <<>>
    ELSE IF Len(words) = 1 THEN words[1]
    ELSE words[1] \o sep \o Join(Tail(words), sep)

\* lit occurs in s at index i
StartsWithAt(s, i, lit) ==
    /\ i + Len(lit) - 1 <= Len(s)
    /\ SubSeq(s, i, i + Len(lit) - 1) = lit

\* s.find(lit), 1-based; 0 when lit does not occur
Find(s, lit) ==
    LET at == {i \in 1..Len(s) : StartsWithAt(s, i, lit)}
    IN  IF at = {} THEN 0 ELSE Min(at)

\* s.replace(lit, ""): every non-overlapping occurrence, left to right
RECURSIVE Remove(_, _)
Remove(s, lit) ==
    IF lit = <<>> THEN s
    ELSE LET Rest(i) ==
                 IF i = 0 THEN s
                 ELSE SubSeq(s, 1, i - 1)
                        \o Strict(SubSeq(s, i + Len(lit), Len(s)), LAMBDA t : Remove(t, lit))
         IN  Strict(Find(s, lit), Rest)

\* s.split(c): the pieces between the occurrences of c, empty pieces kept
RECURSIVE Split(_, _)
Split(s, c) ==
    LET Pieces(at) ==
            IF at = {} THEN <<s>>
            ELSE <<SubSeq(s, 1, Min(at) - 1)>>
                   \o Strict(SubSeq(s, Min(at) + 1, Len(s)), LAMBDA t : Split(t, c))
    IN  Strict({i \in 1..Len(s) : s[i] = c}, Pieces)

\* list(filter(lambda v: v, xs))
RECURSIVE NonEmpty(_)
NonEmpty(xs) ==
    IF xs = <<>> THEN <<>>
    ELSE IF xs[1] = <<>> THEN NonEmpty(Tail(xs))
    ELSE <<xs[1]>> \o NonEmpty(Tail(xs))

----------------------------------------------------------------------------
(* The strings of the program and of the catalogs *)

K_rverbs == <<"r", "v", "e", "r", "b", "s">>
K_raction_words == <<"r", "a", "c", "t", "i", "o", "n", "_", "w", "o", "r", "d", "s">>
K_rquit_verbs == <<"r", "q", "u", "i", "t", "_", "v", "e", "r", "b", "s">>
K_field_words == <<"f", "i", "e", "l", "d", "_", "w", "o", "r", "d", "s">>
K_get_verbs == <<"g", "e", "t", "_", "v", "e", "r", "b", "s">>
K_insert_verbs == <<"i", "n", "s", "e", "r", "t", "_", "v", "e", "r", "b", "s">>
K_realty == <<"r", "e", "a", "l", "t", "y">>
K_worker == <<"w", "o", "r", "k", "e", "r">>
K_request == <<"r", "e", "q", "u", "e", "s", "t">>

\* the keys the catalog is read under
CatalogKeys ==
    {K_rverbs, K_raction_words, K_rquit_verbs, K_field_words, K_get_verbs,
     K_insert_verbs, K_realty, K_worker, K_request}

F_description == <<"d", "e", "s", "c", "r", "i", "p", "t", "i", "o", "n">>
F_address == <<"a", "d", "d", "r", "e", "s", "s">>
F_fullname == <<"f", "u", "l", "l", "n", "a", "m", "e">>
F_timestamp == <<"t", "i", "m", "e", "s", "t", "a", "m", "p">>
F_level == <<"l", "e", "v", "e", "l">>
F_price == <<"p", "r", "i", "c", "e">>
F_norm_description ==
    <<"n", "o", "r", "m", "_", "d", "e", "s", "c", "r", "i", "p", "t", "i", "o", "n">>
F_norm_address == <<"n", "o", "r", "m", "_", "a", "d", "d", "r", "e", "s", "s">>
F_tags == <<"t", "a", "g", "s">>
\* a field the transformers have no rule for
F_rooms == <<"r", "o", "o", "m", "s">>

\* the words of the modelled queries
W_get == <<"g", "e", "t">>
W_add == <<"a", "d", "d">>
W_del == <<"d", "e", "l">>
W_flat == <<"f", "l", "a", "t">>
W_agent == <<"a", "g", "e", "n", "t">>
W_order == <<"o", "r", "d", "e", "r">>
W_loft == <<"l", "o", "f", "t">>
W_bye == <<"b", "y", "e">>
W_addr == <<"a", "d", "d", "r">>
W_cost == <<"c", "o", "s", "t">>
W_name == <<"n", "a", "m", "e">>
W_about == <<"a", "b", "o", "u", "t">>
W_x == <<"x">>
W_y == <<"y">>
W_7 == <<"7">>
W_12 == <<"1", "2">>
W_downstairs == <<"d", "o", "w", "n", "s", "t", "a", "i", "r", "s">>

\* the values held in dicts (the catalog, field maps, filters, documents), each
\* tagged with its Python type
Str(s) == [t |-> "str", v |-> s]
List(xs) == [t |-> "list", v |-> xs]
Dict(f) == [t |-> "dict", v |-> f]
Num(n) == [t |-> "int", v |-> n]

\* {}
EmptyDict == <<>>

\* d | {k: v}
Put(d, k, v) == (k :> v) @@ d

\* the dict d without key k
Del(d, k) == [j \in DOMAIN d \ {k} |-> d[j]]

\* d.get(k) or []  for a dict of lists
GetList(d, k) == IF k \in DOMAIN d /\ d[k].t = "list" THEN d[k].v ELSE <<>>

\* x in c  for a dict (its keys) or a list (its items)
Contains(c, x) == IF c.t = "dict" THEN x \in DOMAIN c.v ELSE x \in Range(c.v)

\* a dict key must be hashable: a str is, a list or a dict is not
Hashable(x) == x.t \in {"str", "int"}

\* what a method hands back: a value, or the exception it raised. The raise
\* statements of the code all raise ValueError and differ in their message;
\* the model names each by its site: PatternNotFound (line 46), MalformedQuery
\* (74), UnknownTarget (175), UnknownVerb (185), PermissionDenied (213),
\* MissingRequiredField (127, 133), UnknownRenderTarget (273, 286). ValueError,
\* TypeError and AttributeError are the interpreter's own.
Return(v) == [exc |-> "none", val |-> v]
Raise(e) == [exc |-> e, val |-> <<>>]

----------------------------------------------------------------------------
(* The pattern catalogs (patterns.json is read at start-up, line 15) *)

\* the source text of the regular expression (a|b|c)
Group(alts) == <<"(">> \o Join(alts, <<"|">>) \o <<")">>

FieldWords ==
    W_addr :> Str(F_address) @@ W_cost :> Str(F_price) @@ W_name :> Str(F_fullname)
      @@ W_about :> Str(F_description)

\* a catalog with exactly the nine keys, field_words a word -> field mapping
CatSpec ==
    K_rverbs :> Str(Group(<<W_get, W_add, W_del>>))
      @@ K_raction_words :> Str(Group(<<W_flat, W_agent, W_order, W_loft>>))
      @@ K_rquit_verbs :> Str(Group(<<W_bye>>))
      @@ K_field_words :> Dict(FieldWords)
      @@ K_get_verbs :> List(<<W_get>>)
      @@ K_insert_verbs :> List(<<W_add>>)
      @@ K_realty :> List(<<W_flat>>)
      @@ K_worker :> List(<<W_agent>>)
      @@ K_request :> List(<<W_order>>)

\* the same catalog with every field keyword also a top-level key
CatFlat == FieldWords @@ CatSpec

\* a nine-key catalog two of whose field keywords are spelled like catalog keys
CatClash ==
    K_field_words :> Dict(K_rquit_verbs :> Str(F_price) @@ K_request :> Str(F_fullname)
                            @@ W_addr :> Str(F_address))
      @@ CatSpec

\* the alternatives of a regular expression fragment (a|b|c), in order
Alternatives(fragment) ==
    LET n == Len(fragment)
        inner == IF n >= 2 /\ fragment[1] = "(" /\ fragment[n] = ")"
                 THEN SubSeq(fragment, 2, n - 1) ELSE fragment
    IN  Split(inner, "|")

----------------------------------------------------------------------------
(* Chat.__init__ and Chat.split_on_parts *)

\* the most filler characters between the verb and the action word
MaxFiller == 20

\* self._search_action: rverbs [\w\s]{0,20} raction_words
search_action(p) ==
    [verbs |-> Alternatives(p[K_rverbs].v),
     filler |-> MaxFiller,
     words |-> Alternatives(p[K_raction_words].v)]

\* the end of the first alternative, in order, that matches s at index i; 0 if none
AltEnd(s, i, alts) ==
    LET ok == {a \in DOMAIN alts : StartsWithAt(s, i, alts[a])}
    IN  IF ok = {} THEN 0 ELSE i + Len(alts[Min(ok)]) - 1

\* the end of the match of verb v, the greedy filler and an action word at index i
VerbEnd(s, i, v, re) ==
    IF ~StartsWithAt(s, i, v) THEN 0
    ELSE LET p == i + Len(v)
             ks == {k \in 0..re.filler :
                       /\ p + k <= Len(s)
                       /\ \A j \in p..(p + k - 1) : InWordOrSpace(s[j])
                       /\ AltEnd(s, p + k, re.words) # 0}
         IN  IF ks = {} THEN 0 ELSE AltEnd(s, p + Max(ks), re.words)

\* the end of the match of the whole pattern at index i; 0 if it does not match there
MatchEnd(s, i, re) ==
    LET ok == {a \in DOMAIN re.verbs : VerbEnd(s, i, re.verbs[a], re) # 0}
    IN  IF ok = {} THEN 0 ELSE VerbEnd(s, i, re.verbs[Min(ok)], re)

\* re.search(self._search_action, s): the span of the leftmost match, or "none"
Search(re, s) ==
    LET at == {i \in 1..Len(s) : MatchEnd(s, i, re) # 0}
    IN  IF at = {} THEN [found |-> FALSE, from |-> 0, to |-> 0]
        ELSE [found |-> TRUE, from |-> Min(at), to |-> MatchEnd(s, Min(at), re)]

split_on_parts(p, splited_sentence) ==
    LET joined_sentence == Join(splited_sentence, <<" ">>)
        Parts(m) ==
            IF ~m.found THEN Raise("PatternNotFound")
            ELSE LET group == SubSeq(joined_sentence, m.from, m.to)
                     fields == Split(Remove(joined_sentence, group), " ")
                     action_words == Split(group, " ")
                 IN  Return(<<NonEmpty(fields),
                              <<action_words[1], action_words[Len(action_words)]>> >>)
    IN  Strict(Search(search_action(p), joined_sentence), Parts)

----------------------------------------------------------------------------
(* Chat.split_fields *)

\* one turn of the loop of lines 63-71 on word; row is [] or [field, words]
ClassifyWord(p, st, word) ==
    IF st.exc # "none" THEN st
    ELSE IF Contains(p[K_field_words], word)
    THEN \* lines 65-68: commit the open row, the new words before the old ones
         LET committed ==
               IF Len(st.row) = 0 THEN st
               ELSE IF ~Hashable(st.row[1]) THEN [st EXCEPT !.exc = "TypeError"]
               ELSE LET ins == GetList(st.fields, st.row[1].v)
                    IN  [st EXCEPT !.fields =
                             Put(st.fields, st.row[1].v, List(st.row[2] \o ins))]
         IN  \* line 69: the field name is read from the catalog's top level
             IF committed.exc # "none" THEN committed
             ELSE IF word \notin DOMAIN p THEN [committed EXCEPT !.exc = "KeyError"]
             ELSE [committed EXCEPT !.row = <<p[word], <<>> >>]
    ELSE \* line 71
         IF Len(st.row) = 0 THEN [st EXCEPT !.exc = "IndexError"]
         ELSE [st EXCEPT !.row = <<st.row[1], Append(st.row[2], word)>>]

RECURSIVE ClassifyAll(_, _, _)
ClassifyAll(p, st, query) ==
    IF query = <<>> THEN st
    ELSE Strict(ClassifyWord(p, st, query[1]),
                LAMBDA st1 : ClassifyAll(p, st1, Tail(query)))

split_fields(p, query) ==
    LET Commit(st) ==
            IF st.exc # "none" THEN Raise("MalformedQuery")       \* lines 72-77
            ELSE IF Len(st.row) = 0 THEN Return(st.fields)
            ELSE IF ~Hashable(st.row[1]) THEN Raise("TypeError")  \* line 80, outside the try
            ELSE Return(Put(st.fields, st.row[1].v, List(st.row[2])))
    IN  Strict(ClassifyAll(p, [exc |-> "none", fields |-> EmptyDict, row |-> <<>>], query),
               Commit)

----------------------------------------------------------------------------
(* Chat.normalize *)

\* c.lower()
Lower(c) ==
    IF c \in Range(UpperCase)
    THEN LowerCase[CHOOSE i \in DOMAIN UpperCase : UpperCase[i] = c]
    ELSE c

W_the == <<"t", "h", "e">>
W_flats == <<"f", "l", "a", "t", "s">>
W_dot == <<".">>
W_bar == <<"|">>

\* the language model: the lemma of each inflected word, and the stop words
UkCoreNewsSm == [lemma |-> (W_flats :> W_flat), stop |-> {W_the}]

\* tok.lemma_
Lemma(n, tok) == IF tok \in DOMAIN n.lemma THEN n.lemma[tok] ELSE tok

\* lex.is_punct
IsPunct(w) == \A i \in DOMAIN w : w[i] \in Punct

normalize(n, query) ==
    LET lowered == [i \in DOMAIN query |-> Lower(query[i])]
        KeepChar(c) == c \notin {"\n", "\t"}
        text == SelectSeq(lowered, KeepChar)
        doc == NonEmpty(Split(text, " "))
        lemmas == [i \in DOMAIN doc |-> Lemma(n, doc[i])]
        Keep(w) == ~IsPunct(w) /\ w \notin n.stop
    IN  SelectSeq(lemmas, Keep)

----------------------------------------------------------------------------
(* Chat.fix_search_fields *)

O_elemMatch == <<"$", "e", "l", "e", "m", "M", "a", "t", "c", "h">>
O_in == <<"$", "i", "n">>
O_regex == <<"$", "r", "e", "g", "e", "x">>
O_options == <<"$", "o", "p", "t", "i", "o", "n", "s">>
O_gte == <<"$", "g", "t", "e">>
O_lte == <<"$", "l", "t", "e">>

\* re.findall("\d+", s): the maximal runs of digits, left to right
RECURSIVE DigitRuns(_)
DigitRuns(s) ==
    LET starts == {i \in 1..Len(s) : s[i] \in Digits}
        Run(i) ==
            LET stops == {j \in i..Len(s) : s[j] \notin Digits}
                j == IF stops = {} THEN Len(s) + 1 ELSE Min(stops)
            IN  <<SubSeq(s, i, j - 1)>> \o Strict(SubSeq(s, j, Len(s)), DigitRuns)
    IN  IF starts = {} THEN <<>> ELSE Strict(Min(starts), Run)

\* int(value) of a run of decimal digits
RECURSIVE ParseInt(_)
ParseInt(value) ==
    IF value = <<>> THEN 0
    ELSE 10 * Strict(SubSeq(value, 1, Len(value) - 1), ParseInt)
           + DigitVal(value[Len(value)])

\* SearchField with the price range taken from the first and last number of the
\* bucket instead of the least and greatest; C5 tells the two apart
SearchField_FirstLast(fields, st, k) ==
    IF st.exc # "none" THEN st
    ELSE LET nfields == st.val
    IN  IF k = F_description
        THEN LET ins == GetList(nfields, F_norm_description)
                 frag == Dict(O_elemMatch :> Dict(O_in :> List(nfields[k].v \o ins)))
             IN  Return(Del(Put(nfields, F_norm_description, frag), k))
        ELSE IF k = F_fullname
        THEN Return(Put(nfields, k,
                 Dict(O_regex :> Str(Join(nfields[k].v, <<" ">>))
                        @@ O_options :> Str(<<"i">>))))
        ELSE IF k = F_address
        THEN LET ins == GetList(nfields, F_norm_address)
                 frag == Dict(O_elemMatch :> Dict(O_in :> List(nfields[k].v \o ins)))
             IN  Return(Del(Put(nfields, F_norm_address, frag), k))
        ELSE IF k \in {F_timestamp, F_level}
        THEN Return(Put(nfields, k, Dict(O_in :> nfields[k])))
        ELSE IF k = F_price
        THEN LET joined_price == Join(nfields[k].v, <<" ">>)
                 runs == DigitRuns(joined_price)
             IN  IF runs = <<>> THEN Raise("ValueError")
                 ELSE Return(Put(nfields, k,
                          Dict(O_gte :> Num(ParseInt(runs[1]))
                                 @@ O_lte :> Num(ParseInt(runs[Len(runs)])))))
        ELSE st

\* one turn of the loop of lines 90-116 on key k of fields
SearchField(fields, st, k) ==
    IF st.exc # "none" THEN st
    ELSE LET nfields == st.val
    IN  IF k = F_description
        THEN LET ins == GetList(nfields, F_norm_description)
                 frag == Dict(O_elemMatch :> Dict(O_in :> List(nfields[k].v \o ins)))
             IN  Return(Del(Put(nfields, F_norm_description, frag), k))
        ELSE IF k = F_fullname
        THEN Return(Put(nfields, k,
                 Dict(O_regex :> Str(Join(nfields[k].v, <<" ">>))
                        @@ O_options :> Str(<<"i">>))))
        ELSE IF k = F_address
        THEN LET ins == GetList(nfields, F_norm_address)
                 frag == Dict(O_elemMatch :> Dict(O_in :> List(nfields[k].v \o ins)))
             IN  Return(Del(Put(nfields, F_norm_address, frag), k))
        ELSE IF k \in {F_timestamp, F_level}
        THEN Return(Put(nfields, k, Dict(O_in :> nfields[k])))
        ELSE IF k = F_price
        THEN LET joined_price == Join(nfields[k].v, <<" ">>)
                 runs == DigitRuns(joined_price)
                 values == {ParseInt(runs[i]) : i \in DOMAIN runs}
             IN  IF values = {} THEN Raise("ValueError")   \* min() of an empty list
                 ELSE Return(Put(nfields, k,
                          Dict(O_gte :> Num(Min(values)) @@ O_lte :> Num(Max(values)))))
        ELSE st

\* the loop over fields.keys(); no turn reads what another turn of a different
\* key wrote, so the order of the keys does not change the result
RECURSIVE SearchFields(_, _, _)
SearchFields(fields, st, keys) ==
    IF keys = {} THEN st
    ELSE LET k == CHOOSE x \in keys : TRUE
         IN  Strict(SearchField(fields, st, k),
                    LAMBDA st1 : SearchFields(fields, st1, keys \ {k}))

fix_search_fields(fields) == SearchFields(fields, Return(fields), DOMAIN fields)

----------------------------------------------------------------------------
(* Chat.fix_insertion_fields *)

TwoDigits(n) == <<DigitChar((n \div 10) % 10), DigitChar(n % 10)>>

\* now.strftime("%d.%m.%y")
strftime(now) ==
    TwoDigits(now.day) \o <<".">> \o TwoDigits(now.month) \o <<".">>
      \o TwoDigits(now.year % 100)

\* fix_insertion_fields accepting a listing that has an address or a price, not
\* both; C6 tells the two apart
fix_insertion_fields_Either(n, now, fields, collection) ==
    IF collection = "appartments" /\ {F_address, F_price} \cap DOMAIN fields = {}
    THEN Raise("MissingRequiredField")
    ELSE IF collection = "requests" /\ F_fullname \notin DOMAIN fields
    THEN Raise("MissingRequiredField")
    ELSE LET words1 == GetList(fields, F_description)
             description == IF words1 # <<>>
                            THEN normalize(n, Join(words1, <<" ">>)) ELSE <<>>
             nfields1 == IF words1 # <<>>
                         THEN Put(fields, F_norm_description, List(description))
                         ELSE fields
             words2 == GetList(nfields1, F_address)
             address == IF words2 # <<>>
                        THEN normalize(n, Join(words2, <<" ">>)) ELSE <<>>
             nfields2 == IF words2 # <<>>
                         THEN Put(nfields1, F_norm_description, List(address))
                         ELSE nfields1
             tags == description \o address
             nfields3 == IF tags # <<>> THEN Put(nfields2, F_tags, List(tags))
                         ELSE nfields2
         IN  Return(Put(nfields3, F_timestamp, Str(strftime(now))))

fix_insertion_fields(n, now, fields, collection) ==
    IF collection = "appartments" /\ ~({F_address, F_price} \subseteq DOMAIN fields)
    THEN Raise("MissingRequiredField")
    ELSE IF collection = "requests" /\ F_fullname \notin DOMAIN fields
    THEN Raise("MissingRequiredField")
    ELSE LET words1 == GetList(fields, F_description)
             description == IF words1 # <<>>
                            THEN normalize(n, Join(words1, <<" ">>)) ELSE <<>>
             nfields1 == IF words1 # <<>>
                         THEN Put(fields, F_norm_description, List(description))
                         ELSE fields
             words2 == GetList(nfields1, F_address)
             address == IF words2 # <<>>
                        THEN normalize(n, Join(words2, <<" ">>)) ELSE <<>>
             \* line 147 stores the address lemmas under norm_description too
             nfields2 == IF words2 # <<>>
                         THEN Put(nfields1, F_norm_description, List(address))
                         ELSE nfields1
             tags == description \o address
             nfields3 == IF tags # <<>> THEN Put(nfields2, F_tags, List(tags))
                         ELSE nfields2
         IN  Return(Put(nfields3, F_timestamp, Str(strftime(now))))

----------------------------------------------------------------------------
(* The storage: db[collection].find(filter) and .insert_one(document) *)

Collections == {"appartments", "workers", "requests"}

\* lit occurs in s, letter case ignored
FoundIgnoringCase(s, lit) ==
    Find([i \in DOMAIN s |-> Lower(s[i])], [i \in DOMAIN lit |-> Lower(lit[i])]) # 0

\* the items a stored value offers to a condition: an array offers its items
Items(x) ==
    IF x.t = "list" THEN {Str(x.v[i]) : i \in DOMAIN x.v} ELSE {x}

\* document doc satisfies condition c on field k
Satisfies(doc, k, c) ==
    /\ k \in DOMAIN doc
    /\ IF c.t = "dict" /\ O_elemMatch \in DOMAIN c.v
       THEN /\ doc[k].t = "list"
            /\ \E x \in Range(doc[k].v) : x \in Range(c.v[O_elemMatch].v[O_in].v)
       ELSE IF c.t = "dict" /\ O_in \in DOMAIN c.v
       THEN \E x \in Items(doc[k]) : x.t = "str" /\ x.v \in Range(c.v[O_in].v)
       ELSE IF c.t = "dict" /\ O_regex \in DOMAIN c.v
       THEN \E x \in Items(doc[k]) :
                x.t = "str" /\ FoundIgnoringCase(x.v, c.v[O_regex].v)
       ELSE IF c.t = "dict" /\ O_gte \in DOMAIN c.v
       THEN /\ \E x \in Items(doc[k]) : x.t = "int" /\ x.v >= c.v[O_gte].v
            /\ \E x \in Items(doc[k]) : x.t = "int" /\ x.v <= c.v[O_lte].v
       ELSE \* a literal list: the stored array equals it
            c.t = "list" /\ doc[k].t = "list" /\ doc[k].v = c.v

Matches(doc, filter) == \A k \in DOMAIN filter : Satisfies(doc, k, filter[k])

\* db[collection].find(filter): the matching documents, in stored order
find(d, collection, filter) ==
    LET Hit(doc) == Matches(doc, filter)
    IN  [t |-> "cursor", v |-> SelectSeq(d[collection], Hit)]

\* db[collection].insert_one(document): the database afterwards
insert_one(d, collection, document) ==
    [d EXCEPT ![collection] = Append(@, document)]

\* the acknowledgment of insert_one
InsertOneResult(d, collection) ==
    [t |-> "ack", inserted_id |-> Len(d[collection]) + 1]

----------------------------------------------------------------------------
(* Chat.make_query *)

\* what make_query did: its outcome, the database afterwards and the calls made
Outcome(r, d, calls) == [exc |-> r.exc, val |-> r.val, db |-> d, calls |-> calls]

\* dispatch with a matrix that also lets a realtor file a request; C1 tells the
\* two apart
dispatch_RealtorRequests(n, now, d, status, func, collection, fields) ==
    IF func = "select"
          /\ \/ status = "customer" /\ collection \in {"appartments", "workers"}
             \/ status = "realtor" /\ collection \in {"requests", "appartments"}
    THEN LET f == fix_search_fields(fields)
         IN  IF f.exc # "none" THEN Outcome(f, d, <<"fix_search_fields">>)
             ELSE Outcome(Return(<<find(d, collection, f.val), collection, func>>), d,
                          <<"fix_search_fields", "find">>)
    ELSE IF func = "insert"
          /\ \/ status \in {"customer", "realtor"} /\ collection = "requests"
             \/ status = "realtor" /\ collection = "appartments"
    THEN LET f == fix_insertion_fields(n, now, fields, collection)
         IN  IF f.exc # "none" THEN Outcome(f, d, <<"fix_insertion_fields">>)
             ELSE Outcome(Return(<<InsertOneResult(d, collection), collection, func>>),
                          insert_one(d, collection, f.val),
                          <<"fix_insertion_fields", "insert_one">>)
    ELSE Outcome(Raise("PermissionDenied"), d, <<>>)

\* dispatch storing the document before the required fields are checked; C8
\* tells the two apart
dispatch_StoreFirst(n, now, d, status, func, collection, fields) ==
    IF func = "select"
          /\ \/ status = "customer" /\ collection \in {"appartments", "workers"}
             \/ status = "realtor" /\ collection \in {"requests", "appartments"}
    THEN LET f == fix_search_fields(fields)
         IN  IF f.exc # "none" THEN Outcome(f, d, <<"fix_search_fields">>)
             ELSE Outcome(Return(<<find(d, collection, f.val), collection, func>>), d,
                          <<"fix_search_fields", "find">>)
    ELSE IF func = "insert"
          /\ \/ status = "customer" /\ collection = "requests"
             \/ status = "realtor" /\ collection = "appartments"
    THEN LET f == fix_insertion_fields(n, now, fields, collection)
             stored == insert_one(d, collection, fields)
         IN  IF f.exc # "none" THEN Outcome(f, stored, <<"insert_one", "fix_insertion_fields">>)
             ELSE Outcome(Return(<<InsertOneResult(d, collection), collection, func>>),
                          insert_one(d, collection, f.val),
                          <<"fix_insertion_fields", "insert_one">>)
    ELSE Outcome(Raise("PermissionDenied"), d, <<>>)

\* lines 189-215: the permission matrix and the dispatch
dispatch(n, now, d, status, func, collection, fields) ==
    IF status = "customer" /\ func = "select" /\ collection \in {"appartments", "workers"}
    THEN LET f == fix_search_fields(fields)
         IN  IF f.exc # "none" THEN Outcome(f, d, <<"fix_search_fields">>)
             ELSE Outcome(Return(<<find(d, collection, f.val), collection, func>>), d,
                          <<"fix_search_fields", "find">>)
    ELSE IF status = "customer" /\ func = "insert" /\ collection = "requests"
    THEN LET f == fix_insertion_fields(n, now, fields, collection)
         IN  IF f.exc # "none" THEN Outcome(f, d, <<"fix_insertion_fields">>)
             ELSE Outcome(Return(<<InsertOneResult(d, collection), collection, func>>),
                          insert_one(d, collection, f.val),
                          <<"fix_insertion_fields", "insert_one">>)
    ELSE IF status = "realtor" /\ func = "select" /\ collection \in {"requests", "appartments"}
    THEN LET f == fix_search_fields(fields)
         IN  IF f.exc # "none" THEN Outcome(f, d, <<"fix_search_fields">>)
             ELSE Outcome(Return(<<find(d, collection, f.val), collection, func>>), d,
                          <<"fix_search_fields", "find">>)
    ELSE IF status = "realtor" /\ func = "insert" /\ collection = "appartments"
    THEN LET f == fix_insertion_fields(n, now, fields, collection)
         IN  IF f.exc # "none" THEN Outcome(f, d, <<"fix_insertion_fields">>)
             ELSE Outcome(Return(<<InsertOneResult(d, collection), collection, func>>),
                          insert_one(d, collection, f.val),
                          <<"fix_insertion_fields", "insert_one">>)
    ELSE Outcome(Raise("PermissionDenied"), d, <<>>)

make_query(p, n, now, d, status, verb, word, fields) ==
    LET collection == IF Contains(p[K_realty], word) THEN "appartments"
                      ELSE IF Contains(p[K_worker], word) THEN "workers"
                      ELSE IF Contains(p[K_request], word) THEN "requests"
                      ELSE "none"
        func == IF Contains(p[K_get_verbs], verb) THEN "select"
                ELSE IF Contains(p[K_insert_verbs], verb) THEN "insert"
                ELSE "none"
    IN  IF collection = "none" THEN Outcome(Raise("UnknownTarget"), d, <<>>)
        ELSE IF func = "none" THEN Outcome(Raise("UnknownVerb"), d, <<>>)
        ELSE dispatch(n, now, d, status, func, collection, fields)

----------------------------------------------------------------------------
(* Chat.is_quit and Chat.format_response *)

is_quit(p, query) ==
    LET joined_query == Join(query, <<" ">>)
        quit == Alternatives(p[K_rquit_verbs].v)
    IN  \E a \in DOMAIN quit : Find(joined_query, quit[a]) # 0

\* bool(x) of a stored value
Truthy(x) == IF x.t = "int" THEN x.v # 0 ELSE Len(x.v) > 0

\* data.get(k) or '-'
OrDash(data, k) == IF k \in DOMAIN data /\ Truthy(data[k]) THEN data[k] ELSE Str(<<"-">>)

\* the fields of one block of the listing, in the order they are printed
Shown(collection) ==
    IF collection = "workers" THEN <<F_fullname, F_description, F_level>>
    ELSE <<F_address, F_price, F_description, F_fullname, F_timestamp>>

\* the text of lines 238-245, 251-256 and 264-271 for the i-th document
Block(collection, i, data) ==
    [n |-> i, of |-> collection,
     shown |-> [j \in DOMAIN Shown(collection) |-> OrDash(data, Shown(collection)[j])]]

format_response(result, collection, func) ==
    IF func = "select"
    THEN IF result.t # "cursor" THEN Raise("TypeError")   \* not iterable
         ELSE IF result.v # <<>> /\ collection \notin Collections
         THEN Raise("UnknownRenderTarget")                 \* line 273
         ELSE Return([head |-> "found",
                      body |-> [i \in DOMAIN result.v |-> Block(collection, i, result.v[i])]])
    ELSE IF func = "insert"
    THEN IF collection = "requests" THEN Return([head |-> "accepted", body |-> <<>>])
         ELSE IF result.t # "ack" THEN Raise("AttributeError")   \* no inserted_id
         ELSE Return([head |-> "inserted",
                      body |-> [collection |-> collection, id |-> result.inserted_id]])
    ELSE Raise("UnknownRenderTarget")                      \* line 286

----------------------------------------------------------------------------
(* Inputs *)

\* the sequences over S of length at most n
SeqsUpTo(S, n) == UNION {[1..k -> S] : k \in 0..n}

PartsWords == {W_get, W_add, W_flat, W_x, W_downstairs}

FieldsCatalogs == {CatSpec, CatFlat, CatClash}

FieldsWords == {W_addr, W_cost, W_x, W_y, K_request, K_rquit_verbs}

W_3to40 == <<"3", "-", "4", "0">>

Dates == {[day |-> 5, month |-> 1, year |-> 2024], [day |-> 31, month |-> 12, year |-> 1999]}

\* the field maps given to fix_search_fields: any set of keys; one bucket for the
\* fields of the query, one for the norm_ fields, one for price
SearchKeys ==
    {F_description, F_address, F_fullname, F_timestamp, F_level, F_price,
     F_norm_description, F_norm_address, F_rooms}

SearchMap(keys, b, nb, pb) ==
    [k \in keys |-> List(IF k = F_price THEN pb
                         ELSE IF k \in {F_norm_description, F_norm_address} THEN nb
                         ELSE b)]

SearchMaps ==
    {SearchMap(keys, b, nb, pb) :
        keys \in SUBSET SearchKeys,
        b \in SeqsUpTo({W_x}, MaxBucket),
        nb \in {<<>>, <<W_y>>},
        pb \in SeqsUpTo({W_x, W_7, W_3to40}, MaxBucket)}

\* the field maps given to fix_insertion_fields: any set of keys; a bucket for
\* description and one for address, over a stop word and an inflected word
InsertKeys ==
    {F_description, F_address, F_fullname, F_price, F_timestamp, F_tags, F_rooms}

InsertMap(keys, b, ab) ==
    [k \in keys |-> List(IF k = F_description THEN b
                         ELSE IF k = F_address THEN ab
                         ELSE <<W_y>>)]

InsertMaps ==
    {InsertMap(keys, b, ab) :
        keys \in SUBSET InsertKeys,
        b \in SeqsUpTo({W_the, W_flats}, MaxBucket),
        ab \in SeqsUpTo({W_the, W_flats}, MaxBucket)}

\* the field maps given to make_query
QueryKeys == {F_address, F_price, F_fullname, F_description, F_timestamp}

QueryMaps ==
    {[k \in keys |-> List(b)] :
        keys \in SUBSET QueryKeys, b \in SeqsUpTo({W_x, W_7}, MaxBucket)}

\* documents stored before the program starts
Worker1 ==
    F_fullname :> Str(<<"a", "n", "n">>) @@ F_description :> Str(W_x)
      @@ F_level :> Str(W_7)

Listing1 ==
    F_address :> List(<<W_x>>) @@ F_price :> List(<<W_7>>)
      @@ F_timestamp :> Str(<<"0", "5", ".", "0", "1", ".", "2", "4">>)

SeedDb == [appartments |-> <<>>, workers |-> <<Worker1>>, requests |-> <<>>]

\* the results given to format_response
Results ==
    {[t |-> "cursor", v |-> docs] : docs \in SeqsUpTo({Worker1, Listing1, EmptyDict}, MaxDocs)}
      \cup {[t |-> "ack", inserted_id |-> 1]}

\* the lines typed at the prompt of main()
Typed ==
    {Join(ws, <<" ">>) : ws \in
        {<<W_bye>>,
         <<W_x, W_flat>>,
         <<W_get, W_flat>>,
         <<W_get, W_flat, W_addr, W_x>>,
         <<<<"G", "e", "t">>, W_the, W_flats, W_addr, W_x, W_y>>,
         <<W_get, W_flat, W_x, W_addr>>,
         <<W_get, W_flat, K_request, W_x>>,
         <<W_get, W_flat, W_dot, W_bar>>,
         <<W_get, W_flat, W_cost, W_x>>,
         <<W_get, W_flat, W_cost, W_3to40>>,
         <<W_get, W_agent>>,
         <<W_get, W_order, W_name, W_x>>,
         <<W_get, W_loft>>,
         <<W_del, W_flat>>,
         <<W_add, W_agent>>,
         <<W_add, W_flat, W_addr, W_x>>,
         <<W_add, W_flat, W_addr, W_x, W_cost, W_7>>,
         <<W_add, W_flat, W_about, W_y, W_addr, W_x, W_cost, W_7>>,
         <<W_add, W_order>>,
         <<W_add, W_order, W_name, W_x>>}}

----------------------------------------------------------------------------
(* Specifications *)

Idle == <<>>

\* split_on_parts called once on a bounded word list
InitParts ==
    /\ pc = "call"
    /\ patterns = CatSpec
    /\ args \in [splited_sentence : SeqsUpTo(PartsWords, MaxWords)]
    /\ ret = Idle
    /\ nlp = Idle /\ role = Idle /\ today = Idle /\ db = Idle
    /\ loc = Idle /\ printed = Idle

CallSplitOnParts ==
    /\ pc = "call"
    /\ ret' = split_on_parts(patterns, args.splited_sentence)
    /\ pc' = "return"
    /\ UNCHANGED <<patterns, nlp, role, today, db, args, loc, printed>>

NextParts == CallSplitOnParts

SpecParts == InitParts /\ [][NextParts]_vars

\* split_fields called once on a bounded word list, under each catalog
InitFields ==
    /\ pc = "call"
    /\ patterns \in FieldsCatalogs
    /\ args \in [query : SeqsUpTo(FieldsWords, MaxQuery)]
    /\ ret = Idle
    /\ nlp = Idle /\ role = Idle /\ today = Idle /\ db = Idle
    /\ loc = Idle /\ printed = Idle

CallSplitFields ==
    /\ pc = "call"
    /\ ret' = split_fields(patterns, args.query)
    /\ pc' = "return"
    /\ UNCHANGED <<patterns, nlp, role, today, db, args, loc, printed>>

NextFields == CallSplitFields

SpecFields == InitFields /\ [][NextFields]_vars

\* fix_search_fields called once on a bounded field map
InitSearch ==
    /\ pc = "call"
    /\ args \in [fields : SearchMaps]
    /\ ret = Idle
    /\ patterns = Idle /\ nlp = Idle /\ role = Idle /\ today = Idle /\ db = Idle
    /\ loc = Idle /\ printed = Idle

CallFixSearchFields ==
    /\ pc = "call"
    /\ ret' = fix_search_fields(args.fields)
    /\ pc' = "return"
    /\ UNCHANGED <<patterns, nlp, role, today, db, args, loc, printed>>

NextSearch == CallFixSearchFields

SpecSearch == InitSearch /\ [][NextSearch]_vars

\* fix_insertion_fields called once on a bounded field map
InitInsert ==
    /\ pc = "call"
    /\ nlp = UkCoreNewsSm
    /\ today \in Dates
    /\ args \in [fields : InsertMaps, collection : Collections]
    /\ ret = Idle
    /\ patterns = Idle /\ role = Idle /\ db = Idle
    /\ loc = Idle /\ printed = Idle

CallFixInsertionFields ==
    /\ pc = "call"
    /\ ret' = fix_insertion_fields(nlp, today, args.fields, args.collection)
    /\ pc' = "return"
    /\ UNCHANGED <<patterns, nlp, role, today, db, args, loc, printed>>

NextInsert == CallFixInsertionFields

SpecInsert == InitInsert /\ [][NextInsert]_vars

\* make_query called once, for each role, verb, target word and field map
InitQuery ==
    /\ pc = "call"
    /\ patterns = CatFlat
    /\ nlp = UkCoreNewsSm
    /\ today \in Dates
    /\ db = SeedDb
    /\ args \in [status : {"customer", "realtor"},
                 verb : {W_get, W_add, W_del},
                 word : {W_flat, W_agent, W_order, W_loft},
                 fields : QueryMaps]
    /\ ret = Idle
    /\ role = Idle /\ loc = Idle /\ printed = Idle

CallMakeQuery ==
    /\ pc = "call"
    /\ \E o \in {make_query(patterns, nlp, today, db, args.status, args.verb,
                             args.word, args.fields)} :
           /\ ret' = [exc |-> o.exc, val |-> o.val, calls |-> o.calls]
           /\ db' = o.db
    /\ pc' = "return"
    /\ UNCHANGED <<patterns, nlp, role, today, args, loc, printed>>

NextQuery == CallMakeQuery

SpecQuery == InitQuery /\ [][NextQuery]_vars

\* format_response called once on any result, collection and operation
InitRender ==
    /\ pc = "call"
    /\ args \in [result : Results,
                 collection : Collections \cup {"garages"},
                 func : {"select", "insert", "delete"}]
    /\ ret = Idle
    /\ patterns = Idle /\ nlp = Idle /\ role = Idle /\ today = Idle /\ db = Idle
    /\ loc = Idle /\ printed = Idle

CallFormatResponse ==
    /\ pc = "call"
    /\ ret' = format_response(args.result, args.collection, args.func)
    /\ pc' = "return"
    /\ UNCHANGED <<patterns, nlp, role, today, db, args, loc, printed>>

NextRender == CallFormatResponse

SpecRender == InitRender /\ [][NextRender]_vars

----------------------------------------------------------------------------
(* main(): the program is started with a role, reads queries until a quit   *)
(* word, and can be started again on the same database                     *)

\* the locals of the loop body; dead at the top of the loop, where each is
\* assigned before it is read
NoLocals ==
    [normalized |-> <<>>, fields |-> <<>>, verb |-> <<>>, search_word |-> <<>>,
     results |-> [t |-> "none"], collection |-> "none", func |-> "none"]

\* the documents the program has inserted
DocCount(d) == Len(d["appartments"]) + Len(d["requests"])

Init ==
    /\ pc = "start"
    /\ patterns \in {CatSpec, CatFlat, CatClash}
    /\ nlp = UkCoreNewsSm
    /\ role = "none"
    /\ today \in Dates
    /\ db = SeedDb
    /\ args = Idle /\ ret = Idle
    /\ loc = NoLocals
    /\ printed = [kind |-> "none"]

\* lines 298-317: the role is checked, the catalog and the database are opened
Start(r) ==
    /\ pc = "start"
    /\ IF r \notin {"customer", "realtor"}
       THEN /\ printed' = [kind |-> "error", exc |-> "ValueError"]
            /\ UNCHANGED <<pc, role>>
       ELSE /\ role' = r
            /\ pc' = "input"
            /\ printed' = [kind |-> "greeting"]
    /\ loc' = NoLocals
    /\ UNCHANGED <<patterns, nlp, today, db, args, ret>>

\* lines 320-325: the prompt is printed, a line is read and normalized; a quit
\* word ends the loop
Input(text) ==
    /\ pc = "input"
    /\ \E normalized \in {normalize(nlp, text)} :
           IF is_quit(patterns, normalized)
           THEN /\ printed' = [kind |-> "bye"]
                /\ pc' = "start"
                /\ role' = "none"
                /\ loc' = NoLocals
           ELSE /\ loc' = [NoLocals EXCEPT !.normalized = normalized]
                /\ pc' = "split_on_parts"
                /\ printed' = [kind |-> "prompt"]
                /\ UNCHANGED role
    /\ UNCHANGED <<patterns, nlp, today, db, args, ret>>

\* lines 337-338: the exception is printed and the loop reads the next line
Except(r) ==
    /\ printed' = [kind |-> "error", exc |-> r.exc]
    /\ pc' = "input"
    /\ loc' = NoLocals

\* line 329
SplitOnParts ==
    /\ pc = "split_on_parts"
    /\ \E r \in {split_on_parts(patterns, loc.normalized)} :
           IF r.exc # "none" THEN Except(r)
           ELSE /\ loc' = [loc EXCEPT !.fields = r.val[1], !.verb = r.val[2][1],
                                      !.search_word = r.val[2][2]]
                /\ pc' = "split_fields"
                /\ UNCHANGED printed
    /\ UNCHANGED <<patterns, nlp, role, today, db, args, ret>>

\* line 330
SplitFields ==
    /\ pc = "split_fields"
    /\ \E r \in {split_fields(patterns, loc.fields)} :
           IF r.exc # "none" THEN Except(r)
           ELSE /\ loc' = [loc EXCEPT !.fields = r.val]
                /\ pc' = "make_query"
                /\ UNCHANGED printed
    /\ UNCHANGED <<patterns, nlp, role, today, db, args, ret>>

\* lines 332-333
MakeQuery ==
    /\ pc = "make_query"
    /\ \E o \in {make_query(patterns, nlp, today, db, role, loc.verb,
                             loc.search_word, loc.fields)} :
           /\ db' = o.db
           /\ IF o.exc # "none" THEN Except(o)
              ELSE /\ loc' = [loc EXCEPT !.results = o.val[1], !.collection = o.val[2],
                                         !.func = o.val[3]]
                   /\ pc' = "format_response"
                   /\ UNCHANGED printed
    /\ UNCHANGED <<patterns, nlp, role, today, args, ret>>

\* lines 335-336
FormatResponse ==
    /\ pc = "format_response"
    /\ \E r \in {format_response(loc.results, loc.collection, loc.func)} :
           IF r.exc # "none" THEN Except(r)
           ELSE /\ printed' = [kind |-> "text", text |-> r.val]
                /\ pc' = "input"
                /\ loc' = NoLocals
    /\ UNCHANGED <<patterns, nlp, role, today, db, args, ret>>

\* the lines typed are bounded: once MaxDocs documents have been stored, no
\* further line with an insertion verb is typed
Offered(text) ==
    \/ DocCount(db) < MaxDocs
    \/ \A w \in Range(normalize(nlp, text)) : ~Contains(patterns[K_insert_verbs], w)

Next ==
    \/ \E r \in {"customer", "realtor", "admin"} : Start(r)
    \/ \E text \in {t \in Typed : Offered(t)} : Input(text)
    \/ SplitOnParts
    \/ SplitFields
    \/ MakeQuery
    \/ FormatResponse

Spec == Init /\ [][Next]_vars


----------------------------------------------------------------------------
(* Properties of split_on_parts, checked under SpecParts *)

\* the items of ws at the indices idx, in order
RECURSIVE Pick(_, _)
Pick(ws, idx) ==
    IF idx = {} THEN <<>>
    ELSE <<ws[Min(idx)]>> \o Strict(idx \ {Min(idx)}, LAMBDA rest : Pick(ws, rest))

\* the index in Join(ws, " ") of the first character of word k
WordStart(ws, k) == k + Len(Join(SubSeq(ws, 1, k - 1), <<>>))

\* the index in Join(ws, " ") of the last character of word k
WordEnd(ws, k) == WordStart(ws, k) + Len(ws[k]) - 1

\* the words of ws that have no character inside the span m of the joined text
WordsOutside(ws, m) ==
    Pick(ws, {k \in DOMAIN ws : WordEnd(ws, k) < m.from \/ WordStart(ws, k) > m.to})

\* the first and the last word of ws inside the span m
SpanEnds(ws, m) ==
    LET inside == {k \in DOMAIN ws : WordStart(ws, k) >= m.from /\ WordEnd(ws, k) <= m.to}
    IN  <<ws[Min(inside)], ws[Max(inside)]>>

\* the leftmost match of the action pattern in the words given to split_on_parts
FirstMatch == Search(search_action(patterns), Join(args.splited_sentence, <<" ">>))

\* C4: whenever the action pattern matches the word list, split_on_parts
\* returns as field words exactly the input words outside the first matched
\* span, in order (a later occurrence of the same phrase stays among them),
\* and the pair (first token, last token) of the matched phrase.
C4_OnlyFirstMatchRemoved ==
    (pc = "return" /\ FirstMatch.found) =>
        /\ ret.exc = "none"
        /\ ret.val[1] = WordsOutside(args.splited_sentence, FirstMatch)
        /\ ret.val[2] = SpanEnds(args.splited_sentence, FirstMatch)

----------------------------------------------------------------------------
(* Properties of split_fields, checked under SpecFields *)

\* word i of query is a field keyword of the catalog
IsKeyword(p, query, i) == Contains(p[K_field_words], query[i])

\* the keyword that opened the run word i of query belongs to; 0 if none
Opener(p, query, i) ==
    LET before == {j \in 1..i : IsKeyword(p, query, j)}
    IN  IF before = {} THEN 0 ELSE Max(before)

\* the canonical field name of keyword w: field_words[w]
Canonical(p, w) == p[K_field_words].v[w].v

\* the words of every run of query opened by a keyword of field f, concatenated
\* in input order
RunsOf(p, query, f) ==
    Pick(query, {i \in DOMAIN query :
                    /\ ~IsKeyword(p, query, i)
                    /\ Opener(p, query, i) # 0
                    /\ Canonical(p, query[Opener(p, query, i)]) = f})

\* one bucket for each field whose keyword occurs in query
Buckets(p, query) ==
    [f \in {Canonical(p, query[i]) : i \in {j \in DOMAIN query : IsKeyword(p, query, j)}}
        |-> List(RunsOf(p, query, f))]

\* the catalog also holds every field keyword at its top level, where line 69
\* looks it up
TopLevelKeywords(p) ==
    \A w \in DOMAIN p[K_field_words].v : w \in DOMAIN p /\ p[w] = p[K_field_words].v[w]

\* C2: for a well-formed query (one that begins with a field keyword),
\* split_fields returns a map in which every field keyword that occurs owns
\* one bucket holding the words of all its runs concatenated in input order,
\* so a repeated keyword appends to its bucket and every non-keyword word
\* appears in exactly one bucket at most once.
C2_RunsConcatenatedInOrder ==
    (/\ pc = "return"
     /\ TopLevelKeywords(patterns)
     /\ args.query # <<>>
     /\ IsKeyword(patterns, args.query, 1)) =>
        /\ ret.exc = "none"
        /\ ret.val = Buckets(patterns, args.query)

\* C3: under a catalog with exactly the nine keys, a query made of one field
\* keyword w followed by words that are not keywords is accepted and its
\* words are stored under field_words[w].
C3_NameFromFieldWords ==
    (/\ pc = "return"
     /\ DOMAIN patterns = CatalogKeys
     /\ args.query # <<>>
     /\ \A i \in DOMAIN args.query : IsKeyword(patterns, args.query, i) <=> i = 1) =>
        /\ ret.exc = "none"
        /\ ret.val = (Canonical(patterns, args.query[1]) :> List(Tail(args.query)))

----------------------------------------------------------------------------
(* Properties of format_response, checked under SpecRender *)

\* C9: format_response fails with the unknown-render-target error for every
\* call whose collection is not appartments, workers or requests, or whose
\* operation is not select or insert, whatever the result holds.
C9_UnknownTargetAlwaysFails ==
    (/\ pc = "return"
     /\ \/ args.collection \notin {"appartments", "workers", "requests"}
        \/ args.func \notin {"select", "insert"}) =>
        ret.exc = "UnknownRenderTarget"

----------------------------------------------------------------------------
(* Properties of fix_insertion_fields, checked under SpecInsert *)

\* the normalized words of bucket k of fields; empty when the bucket is absent
\* or empty
NormalizedBucket(fields, k) ==
    IF GetList(fields, k) = <<>> THEN <<>>
    ELSE normalize(nlp, Join(GetList(fields, k), <<" ">>))

\* C7: for every bucket map accepted in insertion mode, the document's tags
\* are the normalized description words followed by the normalized address
\* words, and the document has no tags key exactly when that list is empty.
C7_TagsAreNormalizedWords ==
    (pc = "return" /\ ret.exc = "none") =>
        LET tags == NormalizedBucket(args.fields, F_description)
                      \o NormalizedBucket(args.fields, F_address)
        IN  /\ F_tags \notin DOMAIN ret.val <=> tags = <<>>
            /\ tags # <<>> => ret.val[F_tags] = List(tags)

----------------------------------------------------------------------------
(* Properties of fix_search_fields, checked under SpecSearch *)

\* the integers written in the price bucket of fields
PriceValues(fields) ==
    LET runs == DigitRuns(Join(fields[F_price].v, <<" ">>))
    IN  {ParseInt(runs[i]) : i \in DOMAIN runs}

\* the fields fix_search_fields rewrites by name
Rewritten == {F_description, F_address, F_fullname, F_timestamp, F_level, F_price}

\* the price entry of the filter is the closed range over the bucket's numbers
PriceIsRange ==
    (F_price \in DOMAIN args.fields /\ PriceValues(args.fields) # {}) =>
        /\ ret.exc = "none"
        /\ ret.val[F_price].t = "dict"
        /\ DOMAIN ret.val[F_price].v = {O_gte, O_lte}
        /\ ret.val[F_price].v[O_gte].t = "int" /\ ret.val[F_price].v[O_lte].t = "int"
        /\ ret.val[F_price].v[O_gte].v \in PriceValues(args.fields)
        /\ ret.val[F_price].v[O_lte].v \in PriceValues(args.fields)
        /\ \A v \in PriceValues(args.fields) :
               ret.val[F_price].v[O_gte].v <= v /\ v <= ret.val[F_price].v[O_lte].v

\* field k is in the filter as the literal word list it had in fields
PassedThrough(k) == k \in DOMAIN ret.val /\ ret.val[k] = args.fields[k]

\* field k is where the words of a description or address bucket are merged
MergeTarget(k) ==
    \/ k = F_norm_description /\ F_description \in DOMAIN args.fields
    \/ k = F_norm_address /\ F_address \in DOMAIN args.fields

\* C5, as stated: a price bucket with at least one number becomes the closed
\* range from its least to its greatest number, and every field other than
\* description, address, fullname, timestamp, level and price is in the result
\* unchanged as its literal word list.
C5_AllOtherFieldsUnchanged ==
    (pc = "return" /\ ret.exc = "none") =>
        /\ PriceIsRange
        /\ \A k \in DOMAIN args.fields \ Rewritten : PassedThrough(k)

\* C5, amended: a price bucket with at least one number becomes the closed
\* range from its least to its greatest number; every field other than the six
\* rewritten ones is in the result unchanged as its literal word list, except
\* norm_description when a description bucket is given and norm_address when
\* an address bucket is given, which become the element-match fragment over
\* the description (address) words followed by the field's own words.
C5_PriceRangeAndPassThrough ==
    pc = "return" =>
        /\ PriceIsRange
        /\ ret.exc = "none" =>
              /\ \A k \in DOMAIN args.fields \ Rewritten :
                     ~MergeTarget(k) => PassedThrough(k)
              /\ F_description \in DOMAIN args.fields =>
                     ret.val[F_norm_description] =
                         Dict(O_elemMatch :> Dict(O_in :> List(
                             args.fields[F_description].v
                               \o GetList(args.fields, F_norm_description))))
              /\ F_address \in DOMAIN args.fields =>
                     ret.val[F_norm_address] =
                         Dict(O_elemMatch :> Dict(O_in :> List(
                             args.fields[F_address].v
                               \o GetList(args.fields, F_norm_address))))

\* a price bucket holding a single number and a range written out of order,
\* beside a description with its own norm_description and an unrelated field
C5_Witness ==
    /\ pc = "return"
    /\ ret.exc = "none"
    /\ {F_price, F_description, F_norm_description, F_rooms} \subseteq DOMAIN args.fields
    /\ args.fields[F_price].v = <<W_7, W_3to40>>
    /\ args.fields[F_description].v # <<>>
    /\ args.fields[F_norm_description].v # <<>>
    /\ ret.val[F_price] = Dict(O_gte :> Num(3) @@ O_lte :> Num(40))
    /\ ret.val[F_rooms] = args.fields[F_rooms]

----------------------------------------------------------------------------
(* Properties of make_query, checked under SpecQuery *)

\* the collection a target word of the catalog names, and the operation a verb
\* names
TargetOf == (W_flat :> "appartments") @@ (W_agent :> "workers") @@ (W_order :> "requests")
OperationOf == (W_get :> "select") @@ (W_add :> "insert")

\* the call is for one of the twelve triples of role, operation and collection
IsTriple == args.word \in DOMAIN TargetOf /\ args.verb \in DOMAIN OperationOf

\* the triple of the call
Triple == <<args.status, OperationOf[args.verb], TargetOf[args.word]>>

\* the six triples the matrix allows
Allowed ==
    {<<"customer", "select", "appartments">>, <<"customer", "select", "workers">>,
     <<"customer", "insert", "requests">>, <<"realtor", "select", "requests">>,
     <<"realtor", "select", "appartments">>, <<"realtor", "insert", "appartments">>}

\* the calls make_query made, as a set
Called == Range(ret.calls)

\* C1: for each of the twelve triples, make_query raises the permission error,
\* calls neither a field transformer nor find/insert_one and leaves the database
\* alone when the triple is not one of the six allowed ones; when it is, no
\* permission error is raised, the transformer of the operation runs, and the
\* storage call of the operation follows unless the transformer itself raised.
\* So the storage is reached only for allowed triples.
C1_PermissionMatrix ==
    (pc = "return" /\ IsTriple) =>
        /\ Triple \notin Allowed =>
              ret.exc = "PermissionDenied" /\ ret.calls = <<>> /\ db = SeedDb
        /\ Triple \in Allowed =>
              /\ ret.exc # "PermissionDenied"
              /\ ret.calls # <<>>
              /\ ret.calls[1] = IF Triple[2] = "select" THEN "fix_search_fields"
                                 ELSE "fix_insertion_fields"
              /\ (IF Triple[2] = "select" THEN "find" ELSE "insert_one") \in Called
                    <=> ret.exc = "none"
        /\ Called \cap {"find", "insert_one"} # {} => Triple \in Allowed

\* a realtor filing a request with a full name is turned away before anything
\* is called
C1_Witness ==
    /\ pc = "return"
    /\ IsTriple
    /\ Triple = <<"realtor", "insert", "requests">>
    /\ F_fullname \in DOMAIN args.fields
    /\ ret.exc = "PermissionDenied"
    /\ ret.calls = <<>>

\* the call is an insert the matrix allows
AllowedInsert == IsTriple /\ Triple \in Allowed /\ Triple[2] = "insert"

\* the fields an insert into the collection must carry
Required(collection) ==
    IF collection = "appartments" THEN {F_address, F_price}
    ELSE IF collection = "requests" THEN {F_fullname}
    ELSE {}

\* text is the date now written as DD.MM.YY
IsDate(text, now) ==
    /\ Len(text) = 8
    /\ text[3] = "." /\ text[6] = "."
    /\ \A i \in {1, 2, 4, 5, 7, 8} : text[i] \in Digits
    /\ ParseInt(SubSeq(text, 1, 2)) = now.day
    /\ ParseInt(SubSeq(text, 4, 5)) = now.month
    /\ ParseInt(SubSeq(text, 7, 8)) = now.year % 100

\* C6: an allowed insert whose field map lacks a required field (address or
\* price for appartments, fullname for requests) raises the missing-field error
\* without calling insert_one and stores nothing; with the required fields
\* present exactly one document is appended to the collection, and its
\* timestamp is today's date as DD.MM.YY whatever timestamp bucket was given.
C6_RequiredFieldsThenStamp ==
    (pc = "return" /\ AllowedInsert) =>
        IF ~(Required(Triple[3]) \subseteq DOMAIN args.fields)
        THEN /\ ret.exc = "MissingRequiredField"
             /\ "insert_one" \notin Called
             /\ db = SeedDb
        ELSE /\ ret.exc = "none"
             /\ Len(SelectSeq(ret.calls, LAMBDA c : c = "insert_one")) = 1
             /\ \A c \in Collections \ {Triple[3]} : db[c] = SeedDb[c]
             /\ Len(db[Triple[3]]) = Len(SeedDb[Triple[3]]) + 1
             /\ SubSeq(db[Triple[3]], 1, Len(SeedDb[Triple[3]])) = SeedDb[Triple[3]]
             /\ LET stored == db[Triple[3]][Len(db[Triple[3]])]
                IN  /\ F_timestamp \in DOMAIN stored
                    /\ stored[F_timestamp].t = "str"
                    /\ IsDate(stored[F_timestamp].v, today)

\* a listing given with its own timestamp bucket is stored under today's date
C6_Witness ==
    /\ pc = "return"
    /\ IsTriple
    /\ Triple = <<"realtor", "insert", "appartments">>
    /\ {F_address, F_price, F_timestamp} \subseteq DOMAIN args.fields
    /\ args.fields[F_timestamp].v # <<>>
    /\ today = [day |-> 5, month |-> 1, year |-> 2024]
    /\ Len(db["appartments"]) = 1
    /\ db["appartments"][1][F_timestamp] = Str(<<"0", "5", ".", "0", "1", ".", "2", "4">>)

----------------------------------------------------------------------------
(* Properties of main(), checked under Spec *)

\* the stages of the pipeline, inside the try of lines 327-338
Stages == {"split_on_parts", "split_fields", "make_query", "format_response"}

\* C8: when a stage of the pipeline raises on a non-quit input, the error is
\* printed and the loop is back at its prompt; the failed query has stored no
\* document and has left the catalog, the language model, the role and the
\* database as they were, with no local of the failed query kept. The stages
\* before the storage call never touch the database, so the state at the
\* prompt is the one the failed query was typed into.
C8_FailedQueryLeavesNoTrace ==
    [][/\ (pc \in Stages /\ printed'.kind = "error") =>
             /\ pc' = "input"
             /\ db' = db
             /\ patterns' = patterns /\ nlp' = nlp /\ role' = role
             /\ loc' = NoLocals
       /\ pc \in Stages => printed.kind = "prompt"
       /\ (pc \in Stages \ {"make_query"} \/ pc = "input") =>
             db' = db /\ patterns' = patterns /\ nlp' = nlp
       /\ pc' = "input" => loc' = NoLocals]_vars

\* a realtor's listing without a price is refused after an earlier listing was
\* stored: only the earlier one is in the database
C8_Witness ==
    /\ pc = "input"
    /\ role = "realtor"
    /\ printed = [kind |-> "error", exc |-> "MissingRequiredField"]
    /\ Len(db["appartments"]) = 1
    /\ F_price \in DOMAIN db["appartments"][1]
    /\ loc = NoLocals

\* the listings in the database whose address bucket shares a word with words
Sharing(words) ==
    {i \in DOMAIN db["appartments"] :
        /\ F_address \in DOMAIN db["appartments"][i]
        /\ Range(db["appartments"][i][F_address].v) \cap Range(words) # {}}

\* C10: once a realtor has stored a listing with a non-empty address bucket,
\* every customer search of appartments by address alone whose bucket shares a
\* word with the listing's has the listing among its results.
C10_InsertedListingIsFound ==
    (/\ pc = "format_response"
     /\ role = "customer"
     /\ loc.func = "select" /\ loc.collection = "appartments"
     /\ DOMAIN loc.fields = {F_address}) =>
        \A i \in Sharing(loc.fields[F_address].v) :
            db["appartments"][i] \in Range(loc.results.v)


============================================================================
